---- MODULE Spec2Model ----
(***************************************************************************)
(* Run materialization engine of aiq-magnet                                *)
(* (magnet/backends/helm/materialize_helm_run.py).                         *)
(*                                                                         *)
(* One node output directory (out_dpath) is driven by a sequence of        *)
(* MaterializeHelmRunConfig.main invocations.  Every statement of main     *)
(* that touches the filesystem is one step, and an invocation may be       *)
(* killed between any two steps.  Strings are sequences of one-character   *)
(* strings, so that parsing, canonicalisation, matching and scoring are    *)
(* computed the way the Python code computes them.                         *)
(***************************************************************************)
EXTENDS Integers, Sequences, FiniteSets, TLC

(***************************************************************************)
(* Bounds of the model.                                                    *)
(***************************************************************************)
\* max_eval_instances is drawn from None and 1..MaxEvalInstances
MaxEvalInstances == 1

\* An optional value (Python None or a value) is a set of at most one element.
None == {}
Some(v) == {v}
The(opt) == CHOOSE v \in opt : TRUE

(***************************************************************************)
(* Strings: Python str operations used by the parser and the matcher.      *)
(***************************************************************************)
Whitespace == {" ", "\t", "\n", "\r"}

\* code points of the characters that occur in the modelled names
Ord(c) ==
    CASE c = "\t" -> 9   [] c = "\n" -> 10  [] c = "\r" -> 13
      [] c = " " -> 32   [] c = "," -> 44   [] c = "/" -> 47
      [] c = "1" -> 49   [] c = "2" -> 50
      [] c = ":" -> 58   [] c = "=" -> 61   [] c = "_" -> 95
      [] c = "a" -> 97   [] c = "d" -> 100  [] c = "e" -> 101
      [] c = "g" -> 103  [] c = "i" -> 105  [] c = "j" -> 106
      [] c = "l" -> 108  [] c = "m" -> 109  [] c = "o" -> 111
      [] c = "p" -> 112  [] c = "s" -> 115  [] c = "t" -> 116
      [] c = "x" -> 120

\* Python: a < b on str (lexicographic by code point, a proper prefix is smaller)
RECURSIVE StrLess(_, _)
StrLess(a, b) ==
    IF b = <<>> THEN FALSE
    ELSE IF a = <<>> THEN TRUE
    ELSE IF Ord(Head(a)) # Ord(Head(b)) THEN Ord(Head(a)) < Ord(Head(b))
    ELSE StrLess(Tail(a), Tail(b))

\* Python: c in s
Contains(s, c) == \E i \in 1..Len(s) : s[i] = c

\* index of the first occurrence of c in s (0 when absent)
FirstIndex(s, c) ==
    IF Contains(s, c) THEN CHOOSE i \in 1..Len(s) :
                               s[i] = c /\ \A j \in 1..(i-1) : s[j] # c
    ELSE 0

\* Python: s.split(c, 1) when c in s: <<before, after>>
SplitFirst(s, c) ==
    LET i == FirstIndex(s, c)
    IN  <<SubSeq(s, 1, i-1), SubSeq(s, i+1, Len(s))>>

\* Python: s.split(c): the pieces between the occurrences of c (at least one)
RECURSIVE Split(_, _)
Split(s, c) ==
    IF ~Contains(s, c) THEN <<s>>
    ELSE <<SplitFirst(s, c)[1]>> \o Split(SplitFirst(s, c)[2], c)

RECURSIVE LStrip(_)
LStrip(s) == IF s # <<>> /\ Head(s) \in Whitespace THEN LStrip(Tail(s)) ELSE s

RECURSIVE RStrip(_)
RStrip(s) ==
    IF s # <<>> /\ s[Len(s)] \in Whitespace
    THEN RStrip(SubSeq(s, 1, Len(s)-1)) ELSE s

\* Python: s.strip()
Strip(s) == RStrip(LStrip(s))

\* Python: s.replace(a, b) for single characters
Replace(s, a, b) == [i \in 1..Len(s) |-> IF s[i] = a THEN b ELSE s[i]]

(***************************************************************************)
(* Token parsing / normalisation.                                          *)
(* A token map (a Python dict, insertion ordered) is a sequence of         *)
(* records [k, flag, v] with distinct keys: flag is TRUE for a bare token  *)
(* (value True) and v is the string value otherwise.                       *)
(***************************************************************************)
ModelKey == <<"m", "o", "d", "e", "l">>

\* dict[k] = entry: overwrite in place when the key is present, else append
DictSet(tokens, e) ==
    IF \E i \in 1..Len(tokens) : tokens[i].k = e.k
    THEN [i \in 1..Len(tokens) |-> IF tokens[i].k = e.k THEN e ELSE tokens[i]]
    ELSE Append(tokens, e)

\* mutant: a part is split at its last '=' (rsplit)
ParsePart_splitsLast(tokens, rawpart) ==
    LET part == Strip(rawpart)
        last == CHOOSE i \in 0..Len(part) :
                    /\ i > 0 => part[i] = "="
                    /\ \A j \in (i+1)..Len(part) : part[j] # "="
    IN  IF part = <<>> THEN tokens
        ELSE IF Contains(part, "=")
        THEN DictSet(tokens, [k |-> Strip(SubSeq(part, 1, last-1)),
                              flag |-> FALSE,
                              v |-> Strip(SubSeq(part, last+1, Len(part)))])
        ELSE DictSet(tokens, [k |-> part, flag |-> TRUE, v |-> <<>>])

\* one pass of the loop body over a comma separated part
ParsePart(tokens, rawpart) ==
    LET part == Strip(rawpart)
    IN  IF part = <<>> THEN tokens
        ELSE IF Contains(part, "=")
        THEN DictSet(tokens, [k |-> Strip(SplitFirst(part, "=")[1]),
                              flag |-> FALSE,
                              v |-> Strip(SplitFirst(part, "=")[2])])
        ELSE DictSet(tokens, [k |-> part, flag |-> TRUE, v |-> <<>>])

RECURSIVE ParseParts(_, _)
ParseParts(tokens, parts) ==
    IF parts = <<>> THEN tokens
    ELSE ParseParts(ParsePart(tokens, Head(parts)), Tail(parts))

\* mutant: the two checks that raise ValueError are missing
parse_run_entry_description_unchecked(desc) ==
    LET cut   == IF Contains(desc, ":") THEN SplitFirst(desc, ":")
                 ELSE <<desc, <<>> >>
        bench == Strip(cut[1])
        rest  == Strip(cut[2])
    IN  [ok |-> TRUE, bench |-> bench,
         tokens |-> IF rest = <<>> THEN <<>>
                    ELSE ParseParts(<<>>, Split(rest, ","))]

\* parse_run_entry_description: ok = FALSE stands for the ValueError
parse_run_entry_description(desc) ==
    IF ~Contains(desc, ":") THEN [ok |-> FALSE, bench |-> <<>>, tokens |-> <<>>]
    ELSE LET bench == Strip(SplitFirst(desc, ":")[1])
             rest  == Strip(SplitFirst(desc, ":")[2])
         IN  IF bench = <<>> THEN [ok |-> FALSE, bench |-> <<>>, tokens |-> <<>>]
             ELSE [ok |-> TRUE, bench |-> bench,
                   tokens |-> IF rest = <<>> THEN <<>>
                              ELSE ParseParts(<<>>, Split(rest, ","))]

\* mutant: '/' is replaced in the value of every token
canonicalize_requested_tokens_allValues(tokens) ==
    [i \in 1..Len(tokens) |->
        IF ~tokens[i].flag
        THEN [tokens[i] EXCEPT !.v = Replace(tokens[i].v, "/", "_")]
        ELSE tokens[i]]

canonicalize_requested_tokens(tokens) ==
    [i \in 1..Len(tokens) |->
        IF tokens[i].k = ModelKey /\ ~tokens[i].flag
        THEN [tokens[i] EXCEPT !.v = Replace(tokens[i].v, "/", "_")]
        ELSE tokens[i]]

\* a call of canonicalize_requested_tokens: the dict the caller passed, as
\* it is after the call, and the dict returned; tokens = dict(tokens) makes
\* the function work on a copy
canonicalize_call(tokens) ==
    LET copy == tokens
    IN  [arg |-> tokens, value |-> canonicalize_requested_tokens(copy)]

\* [t.strip() for t in parts if t.strip()]
RECURSIVE StripNonEmpty(_)
StripNonEmpty(parts) ==
    IF parts = <<>> THEN <<>>
    ELSE IF Strip(Head(parts)) = <<>> THEN StripNonEmpty(Tail(parts))
    ELSE <<Strip(Head(parts))>> \o StripNonEmpty(Tail(parts))

\* _split_run_dir_tokens: <<bench, token strings>>
split_run_dir_tokens(run_dir_name) ==
    IF ~Contains(run_dir_name, ":") THEN << <<>>, <<>> >>
    ELSE LET bench == SplitFirst(run_dir_name, ":")[1]
             rest  == Strip(SplitFirst(run_dir_name, ":")[2])
         IN  <<Strip(bench), StripNonEmpty(Split(rest, ","))>>

\* mutant: a flag is written as key=True, like a token with a value
RequiredTokens_flagAsValue(req_tokens) ==
    [i \in 1..Len(req_tokens) |->
        IF req_tokens[i].flag
        THEN req_tokens[i].k \o <<"=">> \o <<"T","r","u","e">>
        ELSE req_tokens[i].k \o <<"=">> \o req_tokens[i].v]

\* the requested tokens as they are written in a directory name
RequiredTokens(req_tokens) ==
    [i \in 1..Len(req_tokens) |->
        IF req_tokens[i].flag THEN req_tokens[i].k
        ELSE req_tokens[i].k \o <<"=">> \o req_tokens[i].v]

SeqToSet(s) == {s[i] : i \in 1..Len(s)}

\* mutant: the tokens of the candidate must be those requested, no more
run_dir_matches_requested_exactSet(run_dir_name, requested_desc) ==
    LET req      == parse_run_entry_description(requested_desc)
        reqtoks  == canonicalize_requested_tokens(req.tokens)
        cand     == split_run_dir_tokens(run_dir_name)
    IN  IF cand[1] # req.bench THEN FALSE
        ELSE SeqToSet(RequiredTokens(reqtoks)) = SeqToSet(cand[2])

\* run_dir_matches_requested, for a description that parses
run_dir_matches_requested(run_dir_name, requested_desc) ==
    LET req      == parse_run_entry_description(requested_desc)
        reqtoks  == canonicalize_requested_tokens(req.tokens)
        cand     == split_run_dir_tokens(run_dir_name)
    IN  IF cand[1] # req.bench THEN FALSE
        ELSE SeqToSet(RequiredTokens(reqtoks)) \subseteq SeqToSet(cand[2])

\* mutant: the extra tokens are not counted
match_score_ignoresExtras(run_dir_name, requested_desc) ==
    IF run_dir_name = requested_desc THEN <<0, 0, run_dir_name>>
    ELSE <<1, 0, run_dir_name>>

\* match_score: <<exact 0/1, number of extra tokens, name>>
match_score(run_dir_name, requested_desc) ==
    IF run_dir_name = requested_desc THEN <<0, 0, run_dir_name>>
    ELSE LET req      == parse_run_entry_description(requested_desc)
             required == SeqToSet(RequiredTokens(
                             canonicalize_requested_tokens(req.tokens)))
             cand     == split_run_dir_tokens(run_dir_name)[2]
         IN  <<1, Cardinality({i \in 1..Len(cand) : cand[i] \notin required}),
               run_dir_name>>

\* Python tuple comparison of two scores
ScoreLess(a, b) ==
    \/ a[1] < b[1]
    \/ a[1] = b[1] /\ a[2] < b[2]
    \/ a[1] = b[1] /\ a[2] = b[2] /\ StrLess(a[3], b[3])

(***************************************************************************)
(* The names used by the model: one well-formed request, one request       *)
(* without the ':' separator, and four run directory names.                *)
(***************************************************************************)
\* "m:s=p,model=o/g"
ReqA == <<"m",":","s","=","p",",","m","o","d","e","l","=","o","/","g">>
\* "ms=p" (no namespace separator)
ReqBad == <<"m","s","=","p">>
\* ":s=p" (nothing before the separator)
ReqNoBench == <<":","s","=","p">>
\* "m:s=p,model=o_g"
N1 == <<"m",":","s","=","p",",","m","o","d","e","l","=","o","_","g">>
\* "m:s=p,x=j,model=o_g"
N2 == <<"m",":","s","=","p",",","x","=","j",",",
        "m","o","d","e","l","=","o","_","g">>
\* "m:s=a,x=j,model=o_g"
N3 == <<"m",":","s","=","a",",","x","=","j",",",
        "m","o","d","e","l","=","o","_","g">>
\* "i:model=o_g"
N4 == <<"i",":","m","o","d","e","l","=","o","_","g">>

\* suite directory names
S1 == <<"s","1">>
S2 == <<"s","2">>
Latest == <<"l","a","t","e","s","t">>

RequiredFiles == {"run_spec.json", "scenario_state.json", "stats.json"}
PerInstanceStats == "per_instance_stats.json"
AllFiles == RequiredFiles \cup {PerInstanceStats}

(***************************************************************************)
(* Run directories.  A run directory lies at <bo>/runs/<suite>/<name>; it  *)
(* holds a set of files and the parsed content of per_instance_stats.json  *)
(* (a list of records, something that is not a list, or unreadable text).  *)
(***************************************************************************)
Item(id) == [has_id |-> TRUE, instance_id |-> id]
ItemNoId == [has_id |-> FALSE, instance_id |-> 0]
PisList(items) == [kind |-> "list", items |-> items]
PisNotList == [kind |-> "notlist", items |-> <<>>]
PisUnreadable == [kind |-> "unreadable", items |-> <<>>]

PathOf(d) == [bo |-> d.bo, suite |-> d.suite, name |-> d.name]

\* infer_num_instances: None, or the number inferred
infer_num_instances(run_dir) ==
    IF PerInstanceStats \notin run_dir.files THEN None
    ELSE IF run_dir.pis.kind # "list" THEN None
    ELSE LET data == run_dir.pis.items
             ids  == {data[i].instance_id :
                         i \in {j \in 1..Len(data) : data[j].has_id}}
         IN  IF ids # {} THEN Some(Cardinality(ids)) ELSE Some(Len(data))

\* mutant: per_instance_stats.json is required whatever the flag says
is_complete_run_dir_alwaysPis(run_dir, require_per_instance_stats) ==
    (RequiredFiles \cup {PerInstanceStats}) \subseteq run_dir.files

is_complete_run_dir(run_dir, require_per_instance_stats) ==
    LET required == IF require_per_instance_stats
                    THEN RequiredFiles \cup {PerInstanceStats}
                    ELSE RequiredFiles
    IN  required \subseteq run_dir.files

(***************************************************************************)
(* The precomputed store: the run directories under the search roots       *)
(* "R1" and "R2" ("R0" does not exist).                                    *)
(***************************************************************************)
StoreInit ==
    { [root |-> "R1", bo |-> "R1/benchmark_output", suite |-> S1, name |-> N2,
       files |-> AllFiles, pis |-> PisList(<<Item(1), Item(1), Item(2)>>)],
      [root |-> "R1", bo |-> "R1/benchmark_output", suite |-> S1, name |-> N3,
       files |-> AllFiles, pis |-> PisList(<<Item(1)>>)],
      [root |-> "R1", bo |-> "R1/benchmark_output", suite |-> S2, name |-> N1,
       files |-> {"run_spec.json"}, pis |-> PisUnreadable],
      [root |-> "R2", bo |-> "R2/a/benchmark_output", suite |-> S1, name |-> N1,
       files |-> RequiredFiles, pis |-> PisUnreadable],
      [root |-> "R2", bo |-> "R2/a/benchmark_output", suite |-> S1, name |-> N2,
       files |-> AllFiles, pis |-> PisList(<<Item(1)>>)],
      [root |-> "R2", bo |-> "R2/a/benchmark_output", suite |-> S1, name |-> N4,
       files |-> AllFiles, pis |-> PisList(<<Item(1), Item(2)>>)] }

\* the store with a second benchmark_output under "R2" that holds a run
\* directory of the name of one under "R1" and one under "R2/a"
StoreTwin ==
    StoreInit \cup
    { [root |-> "R2", bo |-> "R2/b/benchmark_output", suite |-> S1, name |-> N2,
       files |-> AllFiles, pis |-> PisList(<<Item(1)>>)] }

RootLists == { <<>>, <<"R0", "R1">>, <<"R2", "R1">> }

(***************************************************************************)
(* Disk layout discovery.  `dirs` is the set of run directories visible    *)
(* under the walked roots.                                                 *)
(***************************************************************************)
\* all orders in which a finite set can be enumerated
Orders(S) ==
    {f \in [1..Cardinality(S) -> S] : \A i, j \in DOMAIN f : f[i] = f[j] => i = j}

RECURSIVE Concat(_)
Concat(seqs) == IF seqs = <<>> THEN <<>> ELSE Head(seqs) \o Concat(Tail(seqs))

\* Python: sorted(names)
RECURSIVE SortedNames(_)
SortedNames(S) ==
    IF S = {} THEN <<>>
    ELSE LET m == CHOOSE a \in S : \A b \in S \ {a} : StrLess(a, b)
         IN  <<m>> \o SortedNames(S \ {m})

\* the orders in which discover_benchmark_output_dirs may yield, for the roots
\* in the given order: rglob enumerates a root's directories in any order
RECURSIVE discover_benchmark_output_dirs(_, _)
discover_benchmark_output_dirs(roots, dirs) ==
    IF roots = <<>> THEN { <<>> }
    ELSE LET under == {d.bo : d \in {e \in dirs : e.root = Head(roots)}}
         IN  {first \o rest : first \in Orders(under),
                rest \in discover_benchmark_output_dirs(Tail(roots), dirs)}

\* HelmOutputs._suite_dirs: the suite names of a benchmark_output, sorted
suite_dirs(bo, dirs) ==
    SortedNames({d.suite : d \in {e \in dirs : e.bo = bo}} \ {Latest})

\* HelmSuite._run_dirs: the run directories of a suite, sorted, ':' in the name
run_dirs(bo, suite, dirs) ==
    LET here  == {d \in dirs : d.bo = bo /\ d.suite = suite /\ Contains(d.name, ":")}
        names == SortedNames({d.name : d \in here})
    IN  [i \in 1..Len(names) |-> CHOOSE d \in here : d.name = names[i]]

\* the runs of a benchmark_output in the order the loops visit them
RunsOfOutputs(bo, dirs) ==
    LET suites == suite_dirs(bo, dirs)
    IN  Concat([i \in 1..Len(suites) |-> run_dirs(bo, suites[i], dirs)])

\* mutant: a run whose instance count is unknown is dropped
RECURSIVE KeptCandidates_dropsUnknown(_, _, _, _)
KeptCandidates_dropsUnknown(runs, requested_desc, max_eval_instances, require_pis) ==
    IF runs = <<>> THEN <<>>
    ELSE LET run  == Head(runs)
             rest == KeptCandidates_dropsUnknown(Tail(runs), requested_desc,
                                max_eval_instances, require_pis)
             n    == infer_num_instances(run)
         IN  IF ~is_complete_run_dir(run, require_pis) THEN rest
             ELSE IF ~run_dir_matches_requested(run.name, requested_desc) THEN rest
             ELSE IF max_eval_instances # None
                     /\ (n = None \/ The(n) # The(max_eval_instances)) THEN rest
             ELSE <<run>> \o rest

RECURSIVE KeptCandidates(_, _, _, _)
\* the candidates kept by the loop body: complete, matching, instance count
KeptCandidates(runs, requested_desc, max_eval_instances, require_pis) ==
    IF runs = <<>> THEN <<>>
    ELSE LET run  == Head(runs)
             rest == KeptCandidates(Tail(runs), requested_desc,
                                max_eval_instances, require_pis)
             n    == infer_num_instances(run)
         IN  IF ~is_complete_run_dir(run, require_pis) THEN rest
             ELSE IF ~run_dir_matches_requested(run.name, requested_desc) THEN rest
             ELSE IF max_eval_instances # None /\ n # None
                     /\ The(n) # The(max_eval_instances) THEN rest
             ELSE <<run>> \o rest

\* mutant: the first candidate found is returned, without the sort
BestCandidate_firstFound(cands, requested_desc) == cands[1]

\* candidates.sort(key=match_score); candidates[0]: the sort is stable, so the
\* first candidate of minimal score
BestCandidate(cands, requested_desc) ==
    LET score(i) == match_score(cands[i].name, requested_desc)
        best == CHOOSE i \in 1..Len(cands) :
                   /\ \A j \in 1..Len(cands) : ~ScoreLess(score(j), score(i))
                   /\ \A j \in 1..(i-1) : ScoreLess(score(i), score(j))
    IN  cands[best]

NoResult == [raised |-> FALSE, found |-> None]

\* the loops of find_best_precomputed_run over the benchmark_output
\* directories in the order `walk`; raised stands for the ValueError of
\* parse_run_entry_description, reached at the first complete run directory
SearchOutputs(walk, dirs, requested_desc, max_eval_instances, require_pis) ==
    LET runs == Concat([i \in 1..Len(walk) |-> RunsOfOutputs(walk[i], dirs)])
    IN  IF /\ ~parse_run_entry_description(requested_desc).ok
           /\ \E i \in 1..Len(runs) : is_complete_run_dir(runs[i], require_pis)
        THEN [raised |-> TRUE, found |-> None]
        ELSE IF ~parse_run_entry_description(requested_desc).ok THEN NoResult
        ELSE LET cands == KeptCandidates(runs, requested_desc,
                                     max_eval_instances, require_pis)
             IN  IF cands = <<>> THEN NoResult
                 ELSE [raised |-> FALSE,
                       found |-> Some(BestCandidate(cands, requested_desc))]

\* MatchResult(run_dir, run_name, source_root)
MatchResult(d) == [run_dir |-> PathOf(d), run_name |-> d.name, source_root |-> d.bo]

(***************************************************************************)
(* The node.  The output directory out_dpath holds the sentinel (DONE),    *)
(* the manifest (adapter_manifest.json), the directories created under it  *)
(* and the run directories at benchmark_output/runs/<suite>/<name>, each a *)
(* symbolic link to a run directory of the store or a real directory.      *)
(***************************************************************************)
Modes == {"reuse_only", "compute_if_missing", "force_recompute"}
Materializations == {"symlink", "copy"}
OutBO == "out/benchmark_output"

\* the parameters that identify the node: they are the same in every
\* invocation on one output directory (pipeline.py, algo_params)
NodeParams ==
    [run_entry : {ReqA, ReqBad, ReqNoBench},
     max_eval_instances : {None} \cup {Some(n) : n \in 1..MaxEvalInstances},
     require_per_instance_stats : BOOLEAN]

\* what one invocation may be given on top of them
Invocations ==
    [mode : Modes, materialize : Materializations, precomputed_roots : RootLists]

IdleConfig ==
    [run_entry |-> <<>>, suite |-> <<>>, max_eval_instances |-> None,
     require_per_instance_stats |-> TRUE, mode |-> "compute_if_missing",
     materialize |-> "symlink", precomputed_roots |-> <<>>]

VARIABLES
    store,      \* the run directories under the precomputed roots
    node,       \* the node's identifying parameters
    done,       \* out_dpath/DONE exists
    manifest,   \* content of out_dpath/adapter_manifest.json, None when absent
    outdirs,    \* directories that exist under out_dpath
    tree,       \* entries at out_dpath/benchmark_output/runs/<suite>/<name>
    pc,         \* position of the running invocation, "idle" between two
    config,     \* config of the running invocation
    match,      \* local variable match of main
    computed,   \* local variable computed_run_dir of main
    helm,       \* how the helm-run executable behaves when it is started
    launched,   \* run_helm started the external process
    searched,   \* find_best_precomputed_run ran over precomputed_roots
    called,     \* main reached its call of run_helm
    ret,        \* the value main returned, None when it did not return
    outcome,    \* how the invocation ended
    exc,        \* the exception that ended it ("" when none)
    out0,       \* <<done, manifest, outdirs, tree>> when the invocation began
    interrupted, \* the previous invocation was killed after writing its
                 \* manifest and before writing the sentinel
    unit,       \* a function called on its own: its name and its arguments
    result      \* what that call returned, None before it returns

vars == <<store, node, done, manifest, outdirs, tree, pc, config, match,
          computed, helm, launched, searched, called, ret, outcome, exc, out0,
          interrupted, unit, result>>

disk == <<done, manifest, outdirs, tree>>
locals == <<match, computed, helm, launched, searched, called>>
harness == <<unit, result>>

\* main is running, no function is called on its own
NoCall == [fn |-> "main"]

EntryAt(t, suite, name) == {e \in t : e.suite = suite /\ e.name = name}

LinkEntry(suite, name, src) ==
    [suite |-> suite, name |-> name, kind |-> "link", to |-> Some(src),
     files |-> {}, pis |-> PisUnreadable]

DirEntry(suite, name, files, pis) ==
    [suite |-> suite, name |-> name, kind |-> "dir", to |-> None,
     files |-> files, pis |-> pis]

\* a regular file at that place
FileEntry(suite, name) ==
    [suite |-> suite, name |-> name, kind |-> "file", to |-> None,
     files |-> {}, pis |-> PisUnreadable]

\* Path.exists(): a link exists when its target does
Exists(e, dirs) ==
    IF e.kind = "link" THEN \E d \in dirs : PathOf(d) = The(e.to) ELSE TRUE

\* the run directories visible under out_dpath/benchmark_output: real
\* directories, and links seen through to their targets
OutRunDirs(t, dirs) ==
    { [root |-> "out", bo |-> OutBO, suite |-> e.suite, name |-> e.name,
       files |-> e.files, pis |-> e.pis] : e \in {f \in t : f.kind = "dir"} }
    \cup
    { [root |-> "out", bo |-> OutBO, suite |-> e.suite, name |-> e.name,
       files |-> d.files, pis |-> d.pis] :
         <<e, d>> \in {<<f, g>> \in t \X dirs :
                         f.kind = "link" /\ PathOf(g) = The(f.to)} }

\* the manifest dict of main (lines 245-259), with its status and details
Requested(c) ==
    [run_entry |-> c.run_entry, suite |-> c.suite,
     max_eval_instances |-> c.max_eval_instances,
     require_per_instance_stats |-> c.require_per_instance_stats,
     mode |-> c.mode, materialize |-> c.materialize]

Manifest(c, status, reuse, comp) ==
    [requested |-> Requested(c), status |-> status, reuse |-> reuse,
     computed |-> comp]

ReuseDetails(c, m) ==
    [source_run_dir |-> m.run_dir, matched_run_name |-> m.run_name,
     materialized_run_dir |-> [bo |-> OutBO, suite |-> c.suite,
                               name |-> m.run_name],
     source_benchmark_output_dir |-> m.source_root]

ComputedDetails(path) ==
    [computed_run_dir |-> path, computed_run_name |-> path.name]

\* mutant: the details of the reuse or the computation are not filled in
FinalManifest_withoutDetails ==
    Manifest(config, IF match # None THEN "reused" ELSE "computed", None, None)

\* the manifest main holds when it reaches its last two statements
FinalManifest ==
    IF match # None
    THEN Manifest(config, "reused", Some(ReuseDetails(config, The(match))), None)
    ELSE Manifest(config, "computed", None, Some(ComputedDetails(The(computed))))

SyntheticManifest == [status |-> "done"]

Init ==
    /\ store = StoreInit
    /\ node \in NodeParams
    /\ done = FALSE
    /\ manifest = None
    /\ outdirs = {}
    /\ tree = {}
    /\ pc = "idle"
    /\ config = IdleConfig
    /\ match = None
    /\ computed = None
    /\ helm = None
    /\ launched = FALSE
    /\ searched = FALSE
    /\ called = FALSE
    /\ ret = None
    /\ outcome = "NONE"
    /\ exc = ""
    /\ out0 = <<FALSE, None, {}, {}>>
    /\ interrupted = FALSE
    /\ unit = NoCall
    /\ result = None

\* an invocation ends: its locals are kept for inspection until Exit
End(how, exception, value) ==
    /\ pc' = "ended"
    /\ outcome' = how
    /\ exc' = exception
    /\ ret' = value

(***************************************************************************)
(* main, lines 213-226: the config is read, out_dpath is created.          *)
(***************************************************************************)
Begin ==
    /\ pc = "idle"
    /\ \E inv \in Invocations :
         config' = [run_entry |-> node.run_entry, suite |-> S1,
                    max_eval_instances |-> node.max_eval_instances,
                    require_per_instance_stats |-> node.require_per_instance_stats,
                    mode |-> inv.mode, materialize |-> inv.materialize,
                    precomputed_roots |-> inv.precomputed_roots]
    /\ pc' = "check"
    /\ out0' = disk
    /\ outcome' = "RUNNING"
    /\ UNCHANGED <<harness, store, node, disk, locals, ret, exc, interrupted>>

\* mutant: the short circuit returns the synthetic dict without loading
AlreadyDone_synthetic ==
    /\ pc = "check"
    /\ done /\ config.mode # "force_recompute"
    /\ End("ALREADY_DONE", "", Some(SyntheticManifest))
    /\ UNCHANGED <<harness, store, node, disk, config, locals, out0, interrupted>>

\* mutant: the short circuit is gated on the manifest as well as on DONE
AlreadyDone_manifestGate ==
    /\ pc = "check"
    /\ (done \/ manifest # None) /\ config.mode # "force_recompute"
    /\ End("ALREADY_DONE", "",
           IF manifest # None THEN Some(The(manifest))
           ELSE Some(SyntheticManifest))
    /\ UNCHANGED <<harness, store, node, disk, config, locals, out0, interrupted>>

(***************************************************************************)
(* main, lines 231-239: DONE exists and the mode does not force.           *)
(***************************************************************************)
AlreadyDone ==
    /\ pc = "check"
    /\ done /\ config.mode # "force_recompute"
    /\ End("ALREADY_DONE", "",
           IF manifest # None THEN Some(The(manifest))
           ELSE Some(SyntheticManifest))
    /\ UNCHANGED <<harness, store, node, disk, config, locals, out0,
                   interrupted>>

\* mutant: a forced recompute leaves the old DONE in place
CleanStale_keepsDone ==
    /\ pc = "check"
    /\ ~(done /\ config.mode # "force_recompute")
    /\ pc' = "reuse"
    /\ UNCHANGED <<harness, store, node, disk, config, locals, ret, outcome, exc, out0,
                   interrupted>>

(***************************************************************************)
(* main, lines 241-259: a forced recompute unlinks DONE.                   *)
(***************************************************************************)
CleanStale ==
    /\ pc = "check"
    /\ ~(done /\ config.mode # "force_recompute")
    /\ done' = IF config.mode = "force_recompute" /\ done THEN FALSE ELSE done
    /\ pc' = "reuse"
    /\ UNCHANGED <<harness, store, node, manifest, outdirs, tree, config, locals, ret,
                   outcome, exc, out0, interrupted>>

\* mutant: the mode is not consulted before searching the roots
ReuseAttempted_ignoresMode(c) == c.precomputed_roots # <<>>

\* the condition of line 263
ReuseAttempted(c) == c.mode # "force_recompute" /\ c.precomputed_roots # <<>>

(***************************************************************************)
(* main, lines 261-271: find_best_precomputed_run over precomputed_roots.  *)
(***************************************************************************)
TryReuse ==
    /\ pc = "reuse"
    /\ searched' = ReuseAttempted(config)
    /\ \E walk \in discover_benchmark_output_dirs(config.precomputed_roots, store) :
         LET r == IF ReuseAttempted(config)
                  THEN SearchOutputs(walk, store, config.run_entry,
                                     config.max_eval_instances,
                                     config.require_per_instance_stats)
                  ELSE NoResult
         IN  IF r.raised
             THEN /\ End("DESCRIPTOR_ERROR", "ValueError", None)
                  /\ UNCHANGED match
             ELSE /\ match' = IF r.found = None THEN None
                              ELSE Some(MatchResult(The(r.found)))
                  /\ pc' = IF r.found = None THEN "noreuse" ELSE "materialize"
                  /\ UNCHANGED <<ret, outcome, exc>>
    /\ UNCHANGED <<harness, store, node, disk, config, computed, helm, launched, called,
                   out0,
                   interrupted>>

(***************************************************************************)
(* Materialization (lines 271-285, ensure_symlink, ensure_copytree).       *)
(* dst is out_dpath/benchmark_output/runs/<config.suite>/<match.run_name>. *)
(***************************************************************************)
TargetSuite == config.suite
TargetName == The(match).run_name
Dst == EntryAt(tree, TargetSuite, TargetName)

\* dst.parent.mkdir(parents=True, exist_ok=True), lines 726 and 743
EnsureParents ==
    /\ pc = "materialize"
    /\ outdirs' = outdirs \cup {"benchmark_output", "runs", "suite"}
    /\ pc' = IF config.materialize = "symlink" THEN "symlink_check"
             ELSE "copy_check"
    /\ UNCHANGED <<harness, store, node, done, manifest, tree, config, locals, ret,
                   outcome, exc, out0, interrupted>>

\* mutant: deleting a link deletes the directory it points to as well
PathDelete_followsLinks(t, dirs, suite, name) ==
    [tree  |-> t \ EntryAt(t, suite, name),
     store |-> {d \in dirs : \A e \in EntryAt(t, suite, name) :
                  e.kind = "link" => The(e.to) # PathOf(d)}]

\* ub.Path(dst).delete(): a link is unlinked and never followed, a file is
\* unlinked, a directory is removed with all it holds; the result is the
\* output tree and the precomputed store after the call
PathDelete(t, dirs, suite, name) ==
    [tree |-> t \ EntryAt(t, suite, name), store |-> dirs]

\* mutant: any link found at dst is kept, whatever it points to
SymlinkReplace_keepsAnyLink ==
    /\ pc = "symlink_check"
    /\ IF Dst = {}
       THEN pc' = "symlink_create" /\ UNCHANGED <<tree, store>>
       ELSE IF \E e \in Dst : e.kind = "link"
       THEN pc' = "write_manifest" /\ UNCHANGED <<tree, store>>
       ELSE /\ pc' = "symlink_create"
            /\ tree' = PathDelete(tree, store, TargetSuite, TargetName).tree
            /\ store' = PathDelete(tree, store, TargetSuite, TargetName).store
    /\ UNCHANGED <<harness, node, done, manifest, outdirs, config, locals, ret,
                   outcome, exc, out0, interrupted>>

\* mutant: dst is tested with exists() alone, which a dangling link fails
SymlinkReplace_existsOnly ==
    /\ pc = "symlink_check"
    /\ IF ~\E e \in Dst : Exists(e, store)
       THEN pc' = "symlink_create" /\ UNCHANGED <<tree, store>>
       ELSE IF \E e \in Dst : e.kind = "link" /\ The(e.to) = The(match).run_dir
       THEN pc' = "write_manifest" /\ UNCHANGED <<tree, store>>
       ELSE /\ pc' = "symlink_create"
            /\ tree' = PathDelete(tree, store, TargetSuite, TargetName).tree
            /\ store' = PathDelete(tree, store, TargetSuite, TargetName).store
    /\ UNCHANGED <<harness, node, done, manifest, outdirs, config, locals, ret,
                   outcome, exc, out0, interrupted>>

\* ensure_symlink, lines 727-735: a link to src already is kept, anything
\* else at dst is deleted (ub.Path.delete unlinks a link, never follows it)
SymlinkReplace ==
    /\ pc = "symlink_check"
    /\ IF Dst = {}
       THEN pc' = "symlink_create" /\ UNCHANGED <<tree, store>>
       ELSE IF \E e \in Dst : e.kind = "link" /\ The(e.to) = The(match).run_dir
       THEN pc' = "write_manifest" /\ UNCHANGED <<tree, store>>
       ELSE /\ pc' = "symlink_create"
            /\ tree' = PathDelete(tree, store, TargetSuite, TargetName).tree
            /\ store' = PathDelete(tree, store, TargetSuite, TargetName).store
    /\ UNCHANGED <<harness, node, done, manifest, outdirs, config, locals, ret,
                   outcome, exc, out0, interrupted>>

\* ensure_symlink, line 736: os.symlink(src, dst)
SymlinkCreate ==
    /\ pc = "symlink_create"
    /\ IF Dst # {}
       THEN /\ End("FS_ERROR", "FileExistsError", None)
            /\ UNCHANGED tree
       ELSE /\ tree' = tree \cup
                   {LinkEntry(TargetSuite, TargetName, The(match).run_dir)}
            /\ pc' = "write_manifest"
            /\ UNCHANGED <<ret, outcome, exc>>
    /\ UNCHANGED <<harness, store, node, done, manifest, outdirs, config, locals, out0,
                   interrupted>>

\* mutant: a directory found at dst is kept as the copy
CopyReplace_keepsDirectory ==
    /\ pc = "copy_check"
    /\ IF \E e \in Dst : e.kind = "dir"
       THEN /\ pc' = "write_manifest"
            /\ UNCHANGED <<tree, store>>
       ELSE /\ pc' = "copy_begin"
            /\ IF \E e \in Dst : Exists(e, store)
               THEN /\ tree' = PathDelete(tree, store, TargetSuite, TargetName).tree
                    /\ store' = PathDelete(tree, store, TargetSuite, TargetName).store
               ELSE UNCHANGED <<tree, store>>
    /\ UNCHANGED <<harness, node, done, manifest, outdirs, config, locals, ret,
                   outcome, exc, out0, interrupted>>

\* ensure_copytree, lines 744-745: if dst.exists(): delete it
CopyReplace ==
    /\ pc = "copy_check"
    /\ IF \E e \in Dst : Exists(e, store)
       THEN /\ tree' = PathDelete(tree, store, TargetSuite, TargetName).tree
            /\ store' = PathDelete(tree, store, TargetSuite, TargetName).store
       ELSE UNCHANGED <<tree, store>>
    /\ pc' = "copy_begin"
    /\ UNCHANGED <<harness, node, done, manifest, outdirs, config, locals, ret,
                   outcome, exc, out0, interrupted>>

\* ensure_copytree, line 746: copytree creates dst, which must not exist
CopyTreeBegin ==
    /\ pc = "copy_begin"
    /\ IF Dst # {}
       THEN /\ End("FS_ERROR", "FileExistsError", None)
            /\ UNCHANGED tree
       ELSE /\ tree' = tree \cup
                   {DirEntry(TargetSuite, TargetName, {}, PisUnreadable)}
            /\ pc' = "copy_files"
            /\ UNCHANGED <<ret, outcome, exc>>
    /\ UNCHANGED <<harness, store, node, done, manifest, outdirs, config, locals, out0,
                   interrupted>>

\* ensure_copytree, line 746: copytree copies the files of src into dst
CopyTreeFinish ==
    /\ pc = "copy_files"
    /\ \E src \in {d \in store : PathOf(d) = The(match).run_dir} :
         tree' = (tree \ Dst) \cup
                   {DirEntry(TargetSuite, TargetName, src.files, src.pis)}
    /\ pc' = "write_manifest"
    /\ UNCHANGED <<harness, store, node, done, manifest, outdirs, config, locals, ret,
                   outcome, exc, out0, interrupted>>

\* a filesystem error (permission, device) in a step of the materialization
\* is not caught: it aborts the node
MaterializeFails ==
    /\ pc \in {"materialize", "symlink_check", "symlink_create",
               "copy_check", "copy_begin", "copy_files"}
    /\ End("FS_ERROR", "OSError", None)
    /\ UNCHANGED <<harness, store, node, disk, config, locals, out0,
                   interrupted>>

(***************************************************************************)
(* main, lines 287-292: no match in reuse_only mode.                       *)
(* Line 291 passes kwutil.Json.dump(manifest, indent=2) to write_text.     *)
(* Json.dump is the file-writing counterpart of Json.dumps (line 336); it  *)
(* is called here without a file.  kwutil is an external library: either   *)
(* the call returns the text and the manifest is written, or it raises     *)
(* (or returns no text, and write_text raises before it opens the file).   *)
(***************************************************************************)
JsonDumpReturnsText == BOOLEAN

\* mutant: the raise is missing, main falls through to its last statements
ReuseOnlyMissing_fallsThrough ==
    /\ pc = "noreuse"
    /\ config.mode = "reuse_only"
    /\ manifest' = Some(Manifest(config, "missing", None, None))
    /\ done' = TRUE
    /\ End("REUSE_ONLY_MISSING", "", Some(Manifest(config, "missing", None, None)))
    /\ UNCHANGED <<harness, store, node, outdirs, tree, config, locals, out0, interrupted>>

ReuseOnlyMissing ==
    /\ pc = "noreuse"
    /\ config.mode = "reuse_only"
    /\ \E text \in JsonDumpReturnsText :
         IF text
         THEN /\ manifest' = Some(Manifest(config, "missing", None, None))
              /\ End("REUSE_ONLY_MISSING", "SystemExit", None)
         ELSE /\ UNCHANGED manifest
              /\ End("REUSE_ONLY_MISSING", "TypeError", None)
    /\ UNCHANGED <<harness, store, node, done, outdirs, tree, config, locals, out0,
                   interrupted>>

\* mutant: the mode is not tested before computing
MakeBenchmarkOutput_anyMode ==
    /\ pc = "noreuse"
    /\ outdirs' = outdirs \cup {"benchmark_output"}
    /\ pc' = "run_helm"
    /\ UNCHANGED <<harness, store, node, done, manifest, tree, config, locals, ret,
                   outcome, exc, out0, interrupted>>

(***************************************************************************)
(* main, lines 294-295: (out_dpath / 'benchmark_output').mkdir             *)
(***************************************************************************)
MakeBenchmarkOutput ==
    /\ pc = "noreuse"
    /\ config.mode # "reuse_only"
    /\ outdirs' = outdirs \cup {"benchmark_output"}
    /\ pc' = "run_helm"
    /\ UNCHANGED <<harness, store, node, done, manifest, tree, config, locals, ret,
                   outcome, exc, out0, interrupted>>

(***************************************************************************)
(* Computation (lines 297-333, run_helm, find_run_in_out_dpath).           *)
(***************************************************************************)
\* the parameters of run_helm that have no default (lines 749-756)
RunHelmRequiredParams ==
    {"requested_desc", "suite", "out_dpath", "max_eval_instances",
     "num_threads", "extra_args"}

\* the keyword arguments of the call in main (lines 297-304)
RunHelmCallKeywords ==
    {"requested_desc", "suite", "out_dpath", "max_eval_instances",
     "num_threads"}

\* Python binds a call only if every parameter without default is given
RunHelmCallBinds == RunHelmRequiredParams \subseteq RunHelmCallKeywords

\* the values main passes in that call (lines 298-301): the run_entry as it
\* was given, the suite, out_dpath and the instance cap
RunHelmCallArguments(c) ==
    [requested_desc |-> c.run_entry, suite |-> c.suite, out_dpath |-> "out",
     max_eval_instances |-> c.max_eval_instances]

\* run_helm, lines 762-768: the command line of helm-run and its working
\* directory
HelmRunCommand(args) ==
    [cmd |-> <<"helm-run", "--run-entries", args.requested_desc,
               "--suite", args.suite>>
             \o (IF args.max_eval_instances = None THEN <<>>
                 ELSE <<"--max-eval-instances", The(args.max_eval_instances)>>),
     cwd |-> args.out_dpath]

\* what an external helm-run may do: its exit status, and whether it leaves
\* no run directory, a partial one or a complete one in out_dpath
HelmRuns == [exit : {0, 1}, product : {"none", "partial", "complete"}]

\* helm-run names its run directory with its defaults added (N2) and
\* evaluates max_eval_instances instances (one when it is not given)
HelmProduct(c, run) ==
    LET n == IF c.max_eval_instances = None THEN 1 ELSE The(c.max_eval_instances)
    IN  IF run.product = "complete"
        THEN DirEntry(c.suite, N2, AllFiles, PisList([i \in 1..n |-> Item(i)]))
        ELSE DirEntry(c.suite, N2, {"run_spec.json"}, PisUnreadable)

\* out_dpath after helm-run: it writes its run directory unless one is there
TreeAfterHelm(t, c, run) ==
    IF run.product = "none" \/ EntryAt(t, c.suite, N2) # {} THEN t
    ELSE t \cup {HelmProduct(c, run)}

\* find_run_in_out_dpath: the best run of suite `suite` under out_dpath
find_run_in_out_dpath(dirs, suite, requested_desc, max_eval_instances, require_pis) ==
    LET runs == run_dirs(OutBO, suite, dirs)
    IN  IF /\ ~parse_run_entry_description(requested_desc).ok
           /\ \E i \in 1..Len(runs) : is_complete_run_dir(runs[i], require_pis)
        THEN [raised |-> TRUE, found |-> None]
        ELSE IF ~parse_run_entry_description(requested_desc).ok THEN NoResult
        ELSE LET cands == KeptCandidates(runs, requested_desc,
                                         max_eval_instances, require_pis)
             IN  IF cands = <<>> THEN NoResult
                 ELSE [raised |-> FALSE,
                       found |-> Some(BestCandidate(cands, requested_desc))]

\* lines 306-322: find_run_in_out_dpath, then the fallback scan of out_dpath
LocateComputed(t, c) ==
    LET dirs  == OutRunDirs(t, store)
        first == find_run_in_out_dpath(dirs, c.suite, c.run_entry,
                     c.max_eval_instances, c.require_per_instance_stats)
    IN  IF first.raised \/ first.found # None THEN first
        ELSE SearchOutputs(IF dirs = {} THEN <<>> ELSE <<OutBO>>, dirs,
                 c.run_entry, c.max_eval_instances,
                 c.require_per_instance_stats)

\* the call of run_helm and what follows it up to the manifest of line 326
CallRunHelm ==
    /\ pc = "run_helm"
    /\ called' = TRUE
    /\ launched' = RunHelmCallBinds
    /\ \E run \in HelmRuns, text \in JsonDumpReturnsText :
         LET after   == TreeAfterHelm(tree, config, run)
             located == LocateComputed(after, config)
         IN  /\ helm' = Some(run)
             /\ IF ~RunHelmCallBinds
                THEN /\ End("COMPUTE_FAILED", "TypeError", None)
                     /\ UNCHANGED <<manifest, outdirs, tree, computed>>
                ELSE /\ tree' = after
                     /\ outdirs' = IF run.product = "none" THEN outdirs
                                   ELSE outdirs \cup {"runs", "suite"}
                     /\ IF run.exit # 0
                        THEN /\ End("COMPUTE_FAILED", "CalledProcessError", None)
                             /\ UNCHANGED <<manifest, computed>>
                        ELSE IF located.raised
                        THEN /\ End("DESCRIPTOR_ERROR", "ValueError", None)
                             /\ UNCHANGED <<manifest, computed>>
                        ELSE IF located.found = None
                        THEN /\ manifest' =
                                   IF text
                                   THEN Some(Manifest(config, "error", None, None))
                                   ELSE manifest
                             /\ End("COMPUTED_UNRESOLVABLE",
                                    IF text THEN "RuntimeError" ELSE "TypeError",
                                    None)
                             /\ UNCHANGED computed
                        ELSE /\ computed' = Some(PathOf(The(located.found)))
                             /\ pc' = "write_manifest"
                             /\ UNCHANGED <<manifest, ret, outcome, exc>>
    /\ UNCHANGED <<harness, store, node, done, config, match, searched, out0, interrupted>>

\* mutant: the manifest is not written before the sentinel
WriteManifest_skipped ==
    /\ pc = "write_manifest"
    /\ pc' = "write_done"
    /\ UNCHANGED <<harness, store, node, disk, config, locals, ret, outcome, exc, out0,
                   interrupted>>

(***************************************************************************)
(* main, lines 335-341: the manifest, then the sentinel.                   *)
(***************************************************************************)
WriteManifest ==
    /\ pc = "write_manifest"
    /\ manifest' = Some(FinalManifest)
    /\ pc' = "write_done"
    /\ UNCHANGED <<harness, store, node, done, outdirs, tree, config, locals, ret,
                   outcome, exc, out0, interrupted>>

WriteDone ==
    /\ pc = "write_done"
    /\ done' = TRUE
    /\ End(IF match # None THEN "REUSED" ELSE "COMPUTED_VALIDATED", "",
           Some(FinalManifest))
    /\ UNCHANGED <<harness, store, node, manifest, outdirs, tree, config, locals, out0,
                   interrupted>>

(***************************************************************************)
(* The process is killed between two steps of main.                        *)
(***************************************************************************)
Kill ==
    /\ pc \notin {"idle", "ended"}
    /\ pc' = "ended"
    /\ outcome' = IF pc = "write_done" THEN "KILLED_BEFORE_SENTINEL" ELSE "KILLED"
    /\ UNCHANGED <<harness, store, node, disk, config, locals, ret, exc, out0,
                   interrupted>>

\* the process is gone: nothing of the invocation remains but the disk
Exit ==
    /\ pc = "ended"
    /\ pc' = "idle"
    /\ config' = IdleConfig
    /\ match' = None
    /\ computed' = None
    /\ helm' = None
    /\ launched' = FALSE
    /\ searched' = FALSE
    /\ called' = FALSE
    /\ ret' = None
    /\ outcome' = "NONE"
    /\ exc' = ""
    /\ out0' = disk
    /\ interrupted' = (outcome = "KILLED_BEFORE_SENTINEL")
    /\ UNCHANGED <<harness, store, node, disk>>

Next ==
    \/ Begin \/ AlreadyDone \/ CleanStale \/ TryReuse
    \/ EnsureParents \/ SymlinkReplace \/ SymlinkCreate
    \/ CopyReplace \/ CopyTreeBegin \/ CopyTreeFinish \/ MaterializeFails
    \/ ReuseOnlyMissing \/ MakeBenchmarkOutput \/ CallRunHelm
    \/ WriteManifest \/ WriteDone \/ Kill \/ Exit

Spec == Init /\ [][Next]_vars

(***************************************************************************)
(* The same node when the manifest file may be removed from out_dpath      *)
(* between two invocations (main, lines 233-239, handles its absence).     *)
(***************************************************************************)
ManifestRemoved ==
    /\ pc = "idle"
    /\ manifest # None
    /\ manifest' = None
    /\ out0' = <<done, None, outdirs, tree>>
    /\ UNCHANGED <<harness, store, node, done, outdirs, tree, pc, config, locals, ret,
                   outcome, exc, interrupted>>

NextTamper == Next \/ ManifestRemoved

SpecTamper == Init /\ [][NextTamper]_vars

(***************************************************************************)
(* The same node when a killed invocation is followed by an invocation     *)
(* with the same inputs (the scheduler runs the job again).  `unit` keeps  *)
(* the inputs of the killed invocation and out_dpath as it was when the    *)
(* first killed attempt started.                                           *)
(***************************************************************************)
NoCrash ==
    [fn |-> "main", phase |-> "none", config |-> IdleConfig,
     start |-> <<FALSE, None, {}, {}>>]

InitCrash ==
    /\ store = StoreTwin
    /\ node \in {n \in NodeParams : /\ n.max_eval_instances = None
                                    /\ n.require_per_instance_stats}
    /\ done = FALSE
    /\ manifest = None
    /\ outdirs = {}
    /\ tree = {}
    /\ pc = "idle"
    /\ config = IdleConfig
    /\ match = None
    /\ computed = None
    /\ helm = None
    /\ launched = FALSE
    /\ searched = FALSE
    /\ called = FALSE
    /\ ret = None
    /\ outcome = "NONE"
    /\ exc = ""
    /\ out0 = <<FALSE, None, {}, {}>>
    /\ interrupted = FALSE
    /\ unit = NoCrash
    /\ result = None

\* an invocation starts that does not follow a killed one
BeginFresh == unit.phase = "none" /\ Begin

\* the process is killed between two steps of main, before DONE is written
Crash ==
    /\ pc \notin {"idle", "ended"}
    /\ pc' = "ended"
    /\ outcome' = IF pc = "write_done" THEN "KILLED_BEFORE_SENTINEL" ELSE "KILLED"
    /\ unit' = [unit EXCEPT !.phase = "killed", !.config = config,
                            !.start = IF unit.phase = "none" THEN out0 ELSE @]
    /\ UNCHANGED <<result, store, node, disk, config, locals, ret, exc, out0,
                   interrupted>>

\* the next invocation, with the inputs of the killed one
Retry ==
    /\ pc = "idle"
    /\ unit.phase = "killed"
    /\ config' = unit.config
    /\ pc' = "check"
    /\ out0' = disk
    /\ outcome' = "RUNNING"
    /\ unit' = [unit EXCEPT !.phase = "retry"]
    /\ UNCHANGED <<result, store, node, disk, locals, ret, exc, interrupted>>

\* the process is gone; a retry that was not killed closes the recovery
Leave ==
    /\ pc = "ended"
    /\ pc' = "idle"
    /\ config' = IdleConfig
    /\ match' = None
    /\ computed' = None
    /\ helm' = None
    /\ launched' = FALSE
    /\ searched' = FALSE
    /\ called' = FALSE
    /\ ret' = None
    /\ outcome' = "NONE"
    /\ exc' = ""
    /\ out0' = disk
    /\ interrupted' = (outcome = "KILLED_BEFORE_SENTINEL")
    /\ unit' = IF unit.phase = "retry" THEN NoCrash ELSE unit
    /\ UNCHANGED <<result, store, node, disk>>

NextCrash ==
    \/ BeginFresh \/ Retry \/ AlreadyDone \/ CleanStale \/ TryReuse
    \/ EnsureParents \/ SymlinkReplace \/ SymlinkCreate
    \/ CopyReplace \/ CopyTreeBegin \/ CopyTreeFinish \/ MaterializeFails
    \/ ReuseOnlyMissing \/ MakeBenchmarkOutput \/ CallRunHelm
    \/ WriteManifest \/ WriteDone \/ Crash \/ Leave

SpecCrash == InitCrash /\ [][NextCrash]_vars

(***************************************************************************)
(* ensure_symlink(src, dst) and ensure_copytree(src, dst) called on their  *)
(* own, on a dst in any prior state, and called again with the same        *)
(* arguments once they have returned.  The steps are those of main's       *)
(* materialization; pc = "write_manifest" is the return of the call.       *)
(***************************************************************************)
\* the calls of one ensure function with the same arguments
MaxCalls == 2

\* a path under a root that does not exist
Gone == [bo |-> "R0/benchmark_output", suite |-> S1, name |-> N1]

\* what may lie at dst before the call: nothing, a regular file, a directory
\* with other content, a copy of src, a link to src, a link to another
\* directory, a dangling link
PriorDst(src) ==
    { {},
      {FileEntry(S1, src.name)},
      {DirEntry(S1, src.name, {"stale.json", "stats.json"}, PisNotList)},
      {DirEntry(S1, src.name, src.files, src.pis)},
      {LinkEntry(S1, src.name, PathOf(src))},
      {LinkEntry(S1, src.name, Gone)} }
    \cup { {LinkEntry(S1, src.name, PathOf(d))} : d \in StoreInit \ {src} }

InitEnsure ==
    /\ store = StoreInit
    /\ node = [run_entry |-> ReqA, max_eval_instances |-> None,
               require_per_instance_stats |-> TRUE]
    /\ done = FALSE
    /\ manifest = None
    /\ outdirs = {}
    /\ pc = "materialize"
    /\ computed = None
    /\ helm = None
    /\ launched = FALSE
    /\ searched = FALSE
    /\ called = FALSE
    /\ ret = None
    /\ outcome = "RUNNING"
    /\ exc = ""
    /\ interrupted = FALSE
    /\ result = None
    /\ \E src \in StoreInit, how \in Materializations :
         \E prior \in PriorDst(src) :
           /\ config = [IdleConfig EXCEPT !.run_entry = ReqA, !.suite = S1,
                                          !.materialize = how]
           /\ match = Some(MatchResult(src))
           /\ tree = prior
           /\ out0 = <<FALSE, None, {}, prior>>
           /\ unit = [fn |-> "ensure", calls |-> 1, prior |-> prior]

\* the caller calls the function again with the same src and dst
CallAgain ==
    /\ unit.fn = "ensure"
    /\ pc = "write_manifest"
    /\ unit.calls < MaxCalls
    /\ unit' = [unit EXCEPT !.calls = @ + 1]
    /\ pc' = "materialize"
    /\ out0' = disk
    /\ UNCHANGED <<store, node, disk, config, locals, ret, outcome, exc,
                   interrupted, result>>

NextEnsure ==
    \/ EnsureParents \/ SymlinkReplace \/ SymlinkCreate
    \/ CopyReplace \/ CopyTreeBegin \/ CopyTreeFinish
    \/ CallAgain

SpecEnsure == InitEnsure /\ [][NextEnsure]_vars

(***************************************************************************)
(* The functions of the module called on their own, as their doctests      *)
(* call them: the arguments are drawn from pools of run directory names,   *)
(* run-entry descriptions and run directories, and one action per          *)
(* function applies it.                                                    *)
(***************************************************************************)
\* a run directory name of the pools has at most MaxTokens tokens
MaxTokens == 2
\* a per_instance_stats.json of the pools has at most MaxItems records
MaxItems == 2

\* the token texts of the run directory names: "s=p", " x=j", "model=o_g",
\* "t", "s=a", "e=a=j:1" and the empty text
TokenTexts ==
    { <<"s","=","p">>, <<" ","x","=","j">>,
      <<"m","o","d","e","l","=","o","_","g">>, <<"t">>,
      <<"s","=","a">>, <<"e","=","a","=","j",":","1">>, <<>> }

Benches == { <<"m">>, <<"i">> }

\* Python: sep.join(parts)
RECURSIVE Join(_, _)
Join(parts, sep) ==
    IF parts = <<>> THEN <<>>
    ELSE IF Len(parts) = 1 THEN parts[1]
    ELSE parts[1] \o sep \o Join(Tail(parts), sep)

TokenLists == UNION {[1..n -> TokenTexts] : n \in 0..MaxTokens}

\* run directory names "<bench>:<token>,<token>,...", those of the store
\* and one without ':'
Names == {b \o <<":">> \o Join(l, <<",">>) : b \in Benches, l \in TokenLists}
         \cup {N1, N2, N3, N4, ReqBad}

\* run-entry descriptions: "m:s=p,model=o/g", "m:s=p", "m:t,s=p", "i:",
\* " m : s = p ", "m:e=a=j:1", "m:s=a,s=p"
ReqSP == <<"m",":","s","=","p">>
ReqFlag == <<"m",":","t",",","s","=","p">>
ReqNoTokens == <<"i",":">>
ReqSpaces == <<" ","m"," ",":"," ","s"," ","="," ","p"," ">>
ReqEqColon == <<"m",":","e","=","a","=","j",":","1">>
ReqTwice == <<"m",":","s","=","a",",","s","=","p">>
\* "m:=p,s=" (a token without key, a token without value)
ReqEmptyKey == <<"m",":","=","p",",","s","=">>
Requests == {ReqA, ReqSP, ReqFlag, ReqNoTokens, ReqSpaces, ReqEqColon, ReqTwice,
             ReqEmptyKey}

\* descriptions that do not parse: no ':', and nothing before the ':'
BadRequests == {ReqBad, ReqNoBench}

\* the contents of per_instance_stats.json
ItemLists == UNION {[1..n -> {Item(1), Item(2), ItemNoId}] : n \in 0..MaxItems}
PisContents == {PisNotList, PisUnreadable} \cup {PisList(l) : l \in ItemLists}

\* run directories of the store layout with those contents
RunDirs ==
    [root : {"R1"}, bo : {"R1/benchmark_output"}, suite : {S1},
     name : {N1, N3},
     files : {AllFiles, RequiredFiles, {"run_spec.json"}},
     pis : PisContents]

\* what a call gave: the value it returned or the exception it raised
Returned(v) == [raised |-> FALSE, value |-> v]
Raised(e) == [raised |-> TRUE, value |-> e]

\* the run directory names that match a description
Eligible(req) == {n \in Names : run_dir_matches_requested(n, req)}

\* the descriptions whose candidates are scored against one another
ScoreRequests == {ReqA, ReqSP, ReqFlag}

MatchCalls ==
    [fn : {"run_dir_matches_requested"}, cand : Names, req : Requests]
ScoreCalls ==
    UNION { [fn : {"match_score"}, a : Eligible(r), b : Eligible(r), req : {r}] :
              r \in ScoreRequests }
SearchCalls ==
    [fn : {"find_best_precomputed_run"}, run : RunDirs, req : {ReqA},
     max_eval_instances : {None} \cup {Some(n) : n \in 0..MaxItems},
     require_per_instance_stats : BOOLEAN]
InferCalls ==
    [fn : {"infer_num_instances"},
     run : {r \in RunDirs : r.name = N1 /\ RequiredFiles \subseteq r.files}]
ParseCalls ==
    [fn : {"parse_run_entry_description"},
     desc : Names \cup Requests \cup BadRequests]

\* "m:model,s=o/g" (model as a flag, '/' in another value) and
\* "m:s=o/g,model=o/g/a"
ReqModelFlag == <<"m",":","m","o","d","e","l",",","s","=","o","/","g">>
ReqSlashes == <<"m",":","s","=","o","/","g",",",
                "m","o","d","e","l","=","o","/","g","/","a">>
CanonRequests == {ReqA, ReqSP, ReqFlag, ReqModelFlag, ReqSlashes, ReqNoTokens}
CanonCalls ==
    {[fn |-> "canonicalize_requested_tokens",
      given |-> parse_run_entry_description(r).tokens,
      tokens |-> parse_run_entry_description(r).tokens] : r \in CanonRequests}
\* run directories with any of the four files
CompleteCalls ==
    [fn : {"is_complete_run_dir"},
     run : [root : {"R1"}, bo : {"R1/benchmark_output"}, suite : {S1},
            name : {N1}, files : SUBSET AllFiles, pis : {PisUnreadable}],
     require_per_instance_stats : BOOLEAN]

RootOrders == { <<>>, <<"R0", "R1">>, <<"R1", "R2">>, <<"R2", "R1">>, <<"R2">> }
RootsCalls ==
    [fn : {"find_best_precomputed_run/roots"}, dirs : {StoreInit, StoreTwin},
     roots : RootOrders, req : {ReqA, ReqSP},
     max_eval_instances : {None, Some(1), Some(2)},
     require_per_instance_stats : BOOLEAN]

\* what out_dpath/benchmark_output/runs may hold: a link left by a reuse, run
\* directories written by helm-run, complete or not
OutEntries ==
    { LinkEntry(S1, N2, PathOf(CHOOSE d \in StoreInit : d.root = "R1" /\ d.name = N2)),
      DirEntry(S1, N2, AllFiles, PisList(<<Item(1), Item(2)>>)),
      DirEntry(S1, N1, AllFiles, PisList(<<Item(1)>>)),
      DirEntry(S1, N1, {"run_spec.json"}, PisUnreadable),
      DirEntry(S2, N1, AllFiles, PisList(<<Item(1)>>)) }
OutTrees ==
    {t \in SUBSET OutEntries :
        \A e, f \in t : (e.suite = f.suite /\ e.name = f.name) => e = f}
OutCalls ==
    [fn : {"find_run_in_out_dpath"}, tree : OutTrees, suite : {S1, S2},
     req : {ReqA}, max_eval_instances : {None, Some(1), Some(2)},
     require_per_instance_stats : BOOLEAN]

\* the state of the node, which a call of a function leaves alone
nodevars == <<store, node, done, manifest, outdirs, tree, pc, config, match,
              computed, helm, launched, searched, called, ret, outcome, exc,
              out0, interrupted>>

InitCalls ==
    /\ store = StoreInit
    /\ node = [run_entry |-> ReqA, max_eval_instances |-> None,
               require_per_instance_stats |-> TRUE]
    /\ done = FALSE
    /\ manifest = None
    /\ outdirs = {}
    /\ tree = {}
    /\ pc = "idle"
    /\ config = IdleConfig
    /\ match = None
    /\ computed = None
    /\ helm = None
    /\ launched = FALSE
    /\ searched = FALSE
    /\ called = FALSE
    /\ ret = None
    /\ outcome = "NONE"
    /\ exc = ""
    /\ out0 = <<FALSE, None, {}, {}>>
    /\ interrupted = FALSE
    /\ result = None
    /\ \/ unit \in MatchCalls
       \/ unit \in RootsCalls
       \/ unit \in OutCalls
       \/ unit \in CanonCalls
       \/ unit \in CompleteCalls
       \/ unit \in ScoreCalls
       \/ unit \in SearchCalls
       \/ unit \in InferCalls
       \/ unit \in ParseCalls

CallMatches ==
    /\ unit.fn = "run_dir_matches_requested" /\ result = None
    /\ result' = Some(IF parse_run_entry_description(unit.req).ok
                      THEN Returned(run_dir_matches_requested(unit.cand, unit.req))
                      ELSE Raised("ValueError"))
    /\ UNCHANGED <<unit, nodevars>>

\* the sort key of two candidates of one search
CallScore ==
    /\ unit.fn = "match_score" /\ result = None
    /\ result' = Some(Returned(<<match_score(unit.a, unit.req),
                                 match_score(unit.b, unit.req)>>))
    /\ UNCHANGED <<unit, nodevars>>

\* find_best_precomputed_run over a root that holds one run directory
CallSearch ==
    /\ unit.fn = "find_best_precomputed_run" /\ result = None
    /\ LET r == SearchOutputs(<<unit.run.bo>>, {unit.run}, unit.req,
                              unit.max_eval_instances,
                              unit.require_per_instance_stats)
       IN  result' = Some(IF r.raised THEN Raised("ValueError")
                          ELSE Returned(r.found))
    /\ UNCHANGED <<unit, nodevars>>

CallInfer ==
    /\ unit.fn = "infer_num_instances" /\ result = None
    /\ result' = Some(Returned(infer_num_instances(unit.run)))
    /\ UNCHANGED <<unit, nodevars>>

CallParse ==
    /\ unit.fn = "parse_run_entry_description" /\ result = None
    /\ LET r == parse_run_entry_description(unit.desc)
       IN  result' = Some(IF r.ok
                          THEN Returned([bench |-> r.bench, tokens |-> r.tokens])
                          ELSE Raised("ValueError"))
    /\ UNCHANGED <<unit, nodevars>>

CallCanonicalize ==
    /\ unit.fn = "canonicalize_requested_tokens" /\ result = None
    /\ LET r == canonicalize_call(unit.tokens)
       IN  /\ result' = Some(Returned(r.value))
           /\ unit' = [unit EXCEPT !.tokens = r.arg]
    /\ UNCHANGED nodevars

CallComplete ==
    /\ unit.fn = "is_complete_run_dir" /\ result = None
    /\ result' = Some(Returned(
          is_complete_run_dir(unit.run, unit.require_per_instance_stats)))
    /\ UNCHANGED <<unit, nodevars>>

\* find_best_precomputed_run over the roots of the call, in one of the
\* orders in which the benchmark_output directories may be yielded
CallSearchRoots ==
    /\ unit.fn = "find_best_precomputed_run/roots" /\ result = None
    /\ \E walk \in discover_benchmark_output_dirs(unit.roots, unit.dirs) :
         LET r == SearchOutputs(walk, unit.dirs, unit.req,
                                unit.max_eval_instances,
                                unit.require_per_instance_stats)
         IN  result' = Some(IF r.raised THEN Raised("ValueError")
                            ELSE Returned(r.found))
    /\ UNCHANGED <<unit, nodevars>>

CallFindInOut ==
    /\ unit.fn = "find_run_in_out_dpath" /\ result = None
    /\ LET r == find_run_in_out_dpath(OutRunDirs(unit.tree, StoreInit),
                    unit.suite, unit.req, unit.max_eval_instances,
                    unit.require_per_instance_stats)
       IN  result' = Some(IF r.raised THEN Raised("ValueError")
                          ELSE Returned(r.found))
    /\ UNCHANGED <<unit, nodevars>>

NextCalls ==
    \/ CallMatches \/ CallScore \/ CallSearch \/ CallInfer \/ CallParse
    \/ CallCanonicalize \/ CallComplete \/ CallSearchRoots \/ CallFindInOut

SpecCalls == InitCalls /\ [][NextCalls]_vars

(***************************************************************************)
(* Properties.                                                             *)
(***************************************************************************)
SuccessStatuses == {"reused", "computed"}
ErrorOutcomes ==
    {"REUSE_ONLY_MISSING", "COMPUTE_FAILED", "COMPUTED_UNRESOLVABLE",
     "DESCRIPTOR_ERROR", "FS_ERROR"}
KilledOutcomes == {"KILLED", "KILLED_BEFORE_SENTINEL"}
Ended == pc = "ended"
Completed == pc = "ended" /\ outcome \notin KilledOutcomes
DoneAtStart == out0[1]
ManifestAtStart == out0[2]
TreeAtStart == out0[4]

\* C1: in every reachable state of the output directory, if the sentinel
\* exists then the manifest exists and records a success status; the
\* sentinel is created only by the last statement of main, and that
\* statement is reached only through the write of the manifest main holds.
C1_SentinelImpliesManifest ==
    /\ [](done => manifest # None /\ The(manifest).status \in SuccessStatuses)
    /\ [][(~done /\ done') =>
            (pc = "write_done" /\ manifest = Some(FinalManifest)
               /\ manifest' = manifest)]_vars
    /\ [][(pc # "write_done" /\ pc' = "write_done") =>
            (pc = "write_manifest" /\ manifest' = Some(FinalManifest))]_vars

\* a success whose manifest replaced the one left by an interrupted attempt
C1_Witness ==
    /\ Ended /\ outcome = "REUSED" /\ done
    /\ interrupted
    /\ manifest # ManifestAtStart

\* C2: after an invocation that ended in an error terminal state the
\* sentinel does not exist.
C2_NoSentinelAfterError ==
    (Ended /\ outcome \in ErrorOutcomes) => ~done

\* a materialization that failed after it had changed the output tree
C2_Witness ==
    /\ Ended /\ outcome = "FS_ERROR"
    /\ tree # TreeAtStart
    /\ ~done

\* C3: an invocation that finds the sentinel, in a mode other than
\* force_recompute, runs no search, materialization or compute, leaves
\* sentinel, manifest and output tree as they were, and returns the manifest
\* on disk, or the synthetic one when the manifest file is absent.
C3_AlreadyDoneFrame ==
    (pc # "idle" /\ DoneAtStart /\ config.mode # "force_recompute") =>
        /\ pc \in {"check", "ended"}
        /\ disk = out0
        /\ ~searched /\ ~called /\ match = None
        /\ Completed =>
             /\ outcome = "ALREADY_DONE"
             /\ ret = IF ManifestAtStart # None THEN ManifestAtStart
                      ELSE Some(SyntheticManifest)

\* the short circuit taken when the manifest file is absent
C3_Witness ==
    /\ Ended /\ outcome = "ALREADY_DONE"
    /\ manifest = None
    /\ ret = Some(SyntheticManifest)

\* C4: the invocation that follows one killed between the write of the
\* manifest and the write of the sentinel starts without sentinel, passes
\* the sentinel check and never ends as ALREADY_DONE.
C4_SentinelGating ==
    (interrupted /\ pc # "idle") =>
        /\ ~DoneAtStart
        /\ ManifestAtStart # None
        /\ pc = "check" => ~done
        /\ outcome # "ALREADY_DONE"
        /\ Completed => outcome \in ErrorOutcomes \cup {"REUSED", "COMPUTED_VALIDATED"}

\* the invocation after the interrupted one, with the inputs the manifest of
\* the interrupted one records, resolved again and succeeded
C4_Witness ==
    /\ interrupted /\ Ended /\ outcome = "REUSED"
    /\ ManifestAtStart # None
    /\ The(ManifestAtStart).requested = Requested(config)
    /\ searched

\* C5: an invocation that reaches the Compute Invoker, whose helm-run exits
\* with status zero and leaves a complete run directory matching the
\* request, ends as COMPUTED_VALIDATED with manifest status computed and
\* the sentinel written.
C5_ComputeValidates ==
    (/\ Completed /\ called
     /\ parse_run_entry_description(config.run_entry).ok
     /\ The(helm).exit = 0 /\ The(helm).product = "complete")
    => /\ outcome = "COMPUTED_VALIDATED"
       /\ manifest # None /\ The(manifest).status = "computed"
       /\ done

\* C6: after a reuse_only invocation that found no match the manifest file
\* exists and records status missing.
C6_MissingManifestWritten ==
    (Ended /\ outcome = "REUSE_ONLY_MISSING") =>
        (manifest # None /\ The(manifest).status = "missing")

\* C7: in reuse_only mode main never reaches run_helm, and an invocation
\* whose reuse resolution found no match ends as REUSE_ONLY_MISSING.
C7_ReuseOnlyNeverComputes ==
    config.mode = "reuse_only" =>
        /\ ~called /\ ~launched /\ pc # "run_helm"
        /\ (Completed /\ match = None
              /\ outcome \notin {"ALREADY_DONE", "DESCRIPTOR_ERROR"})
           => (outcome = "REUSE_ONLY_MISSING" /\ ~done)

\* a reuse_only invocation that searched its roots and found nothing
C7_Witness ==
    /\ Ended /\ config.mode = "reuse_only"
    /\ outcome = "REUSE_ONLY_MISSING"
    /\ searched /\ ~called

\* the run directory main materializes for its match
MaterializedEntry ==
    IF config.materialize = "symlink"
    THEN {LinkEntry(config.suite, The(match).run_name, The(match).run_dir)}
    ELSE {DirEntry(config.suite, The(match).run_name, d.files, d.pis) :
            d \in {e \in store : PathOf(e) = The(match).run_dir}}

\* C8: an invocation whose reuse resolution produced a match never reaches
\* run_helm and, unless it is killed or a filesystem step fails, ends as
\* REUSED: the matched run is at
\* out_dpath/benchmark_output/runs/<suite>/<matched_run_name>, the manifest
\* has status reused with the reuse details, and the sentinel exists.
C8_ReusedMaterialized ==
    match # None =>
        /\ ~called
        /\ config.mode \in {"reuse_only", "compute_if_missing"}
        /\ config.precomputed_roots # <<>>
        /\ (Completed /\ outcome # "FS_ERROR") =>
             /\ outcome = "REUSED"
             /\ EntryAt(tree, config.suite, The(match).run_name) = MaterializedEntry
             /\ manifest = Some(Manifest(config, "reused",
                                  Some(ReuseDetails(config, The(match))), None))
             /\ ret = manifest
             /\ done

\* a reuse that replaced a link to another source by the link to its match
C8_Witness ==
    /\ Ended /\ outcome = "REUSED" /\ config.materialize = "symlink"
    /\ \E e \in TreeAtStart :
         /\ e.name = The(match).run_name
         /\ e.kind = "link" /\ The(e.to) # The(match).run_dir

\* C9: in force_recompute mode the sentinel is absent from the first step
\* after the sentinel check until the last statement of main, so a
\* force_recompute invocation that fails leaves no sentinel.
C9_ForceRecomputeClearsSentinel ==
    /\ []((/\ config.mode = "force_recompute"
           /\ \/ pc \notin {"idle", "check", "ended"}
              \/ Ended /\ outcome \in ErrorOutcomes)
          => ~done)
    /\ [][(config.mode = "force_recompute" /\ pc \notin {"idle", "check"}
             /\ ~done /\ done') => pc = "write_done"]_vars

\* a forced recompute that failed where a sentinel stood before it
C9_Witness ==
    /\ Ended /\ config.mode = "force_recompute"
    /\ outcome = "COMPUTE_FAILED"
    /\ DoneAtStart /\ ~done

\* C10: find_best_precomputed_run runs over precomputed_roots iff the mode
\* is not force_recompute and a root was given; a force_recompute
\* invocation has no match, never ends as REUSED and, when it is not
\* killed, reaches the call of run_helm.
C10_ReuseResolutionGate ==
    /\ (pc \notin {"idle", "check", "reuse", "ended"}
          \/ (Completed /\ outcome # "ALREADY_DONE"))
       => (searched <=> (config.mode # "force_recompute"
                           /\ config.precomputed_roots # <<>>))
    /\ config.mode = "force_recompute" =>
         /\ ~searched /\ match = None
         /\ outcome # "REUSED"
         /\ Completed => called

\* a forced recompute over roots that hold a complete matching run
C10_Witness ==
    /\ Ended /\ config.mode = "force_recompute" /\ called /\ ~searched
    /\ \E walk \in discover_benchmark_output_dirs(config.precomputed_roots, store) :
         SearchOutputs(walk, store, config.run_entry, config.max_eval_instances,
                       config.require_per_instance_stats).found # None

\* C11: an invocation that reaches the Compute Invoker with a helm-run that
\* exits with a non-zero status starts that process, ends with the failure
\* of the process propagated to the caller (the CalledProcessError of
\* check_returncode), runs no post-compute resolution and returns no
\* manifest with status computed.
C11_NonZeroExitAborts ==
    (Completed /\ called /\ The(helm).exit # 0) =>
        /\ launched
        /\ outcome = "COMPUTE_FAILED" /\ exc = "CalledProcessError"
        /\ computed = None
        /\ ret = None

\* C12: an invocation that reaches the Compute Invoker with a helm-run that
\* exits with status zero, after which no run directory under out_dpath is
\* complete and matches the request, ends as COMPUTED_UNRESOLVABLE, and the
\* manifest on disk records status error.
C12_UnresolvableRecordsError ==
    (/\ Completed /\ called
     /\ parse_run_entry_description(config.run_entry).ok
     /\ The(helm).exit = 0
     /\ LocateComputed(TreeAfterHelm(tree, config, The(helm)), config) = NoResult)
    => /\ outcome = "COMPUTED_UNRESOLVABLE"
       /\ manifest # None /\ The(manifest).status = "error"
       /\ computed = None

\* C15: ensure_symlink(src, dst) raises no error whatever lies at dst, and
\* when it has returned dst is a symbolic link to src; on a dst that is a
\* link to src already it changes nothing, so a second call with the same
\* arguments leaves the state the first call left.
C15_LinkStrategy ==
    config.materialize = "symlink" =>
        /\ outcome # "FS_ERROR"
        /\ pc = "write_manifest" =>
             Dst = {LinkEntry(TargetSuite, TargetName, The(match).run_dir)}
        /\ LinkEntry(TargetSuite, TargetName, The(match).run_dir) \in TreeAtStart
             => (tree = TreeAtStart /\ pc # "symlink_create")
        /\ (pc = "write_manifest" /\ unit.calls > 1) => tree = TreeAtStart

\* the second call has returned, on a dst that was a dangling link before
\* the first
C15_Witness ==
    /\ config.materialize = "symlink"
    /\ pc = "write_manifest" /\ unit.calls = 2
    /\ unit.prior = {LinkEntry(TargetSuite, TargetName, Gone)}
    /\ Dst = {LinkEntry(TargetSuite, TargetName, The(match).run_dir)}

\* C16: ensure_copytree(src, dst) raises no error whatever lies at dst, and
\* when it has returned dst is a directory that holds exactly what src
\* holds; a second call with the same arguments leaves the state the first
\* call left.
C16_CopyStrategy ==
    config.materialize = "copy" =>
        /\ outcome # "FS_ERROR"
        /\ pc = "write_manifest" => Dst = MaterializedEntry
        /\ (pc = "write_manifest" /\ unit.calls > 1) => tree = TreeAtStart

C13_TokenSubsetEligibility ==
    (unit.fn = "run_dir_matches_requested" /\ result # None) =>
        LET req      == parse_run_entry_description(unit.req)
            required == RequiredTokens(canonicalize_requested_tokens(req.tokens))
            cand     == split_run_dir_tokens(unit.cand)
            has(t)   == \E i \in 1..Len(cand[2]) : cand[2][i] = t
            matched  == The(result).value
        IN  /\ ~The(result).raised
            /\ matched <=> (/\ cand[1] = req.bench
                            /\ \A i \in 1..Len(required) : has(required[i]))
            /\ matched =>
                 \A extra \in TokenTexts :
                    run_dir_matches_requested(unit.cand \o <<",">> \o extra, unit.req)
            /\ (\A i \in 1..Len(required) : has(required[i])) /\ cand[1] # req.bench
                 => ~matched

\* a candidate with a token that was not requested matched a request whose
\* model token was canonicalized
C13_Witness ==
    /\ unit.fn = "run_dir_matches_requested" /\ result # None
    /\ unit.req = ReqA
    /\ The(result).value = TRUE
    /\ Len(split_run_dir_tokens(unit.cand)[2]) >
         Len(parse_run_entry_description(unit.req).tokens)

\* the number of tokens of a candidate that the request does not ask for
ExtraTokens(name, req) ==
    LET required == SeqToSet(RequiredTokens(canonicalize_requested_tokens(
                        parse_run_entry_description(req).tokens)))
        cand     == split_run_dir_tokens(name)[2]
    IN  Cardinality({i \in 1..Len(cand) : cand[i] \notin required})

\* C14: for two eligible candidates a and b of one request, exactly one of
\* score(a) < score(b), score(b) < score(a), a = b holds, and the order is
\* transitive; a candidate whose name is the requested text comes before
\* any other; of two others the one with fewer extra tokens comes first,
\* and with as many extra tokens the one whose name is smaller.
C14_ScoreTotalOrder ==
    (unit.fn = "match_score" /\ result # None) =>
        LET sa == The(result).value[1]
            sb == The(result).value[2]
            a  == unit.a
            b  == unit.b
            ea == ExtraTokens(a, unit.req)
            eb == ExtraTokens(b, unit.req)
        IN  /\ a = b => (~ScoreLess(sa, sb) /\ ~ScoreLess(sb, sa))
            /\ a # b => (ScoreLess(sa, sb) <=> ~ScoreLess(sb, sa))
            /\ \A c \in {N1, N2, unit.req} :
                 (ScoreLess(sa, sb) /\ ScoreLess(sb, match_score(c, unit.req)))
                    => ScoreLess(sa, match_score(c, unit.req))
            /\ (a = unit.req /\ b # unit.req) => ScoreLess(sa, sb)
            /\ (a # unit.req /\ b # unit.req /\ ea < eb) => ScoreLess(sa, sb)
            /\ (a # unit.req /\ b # unit.req /\ ea = eb)
                 => (ScoreLess(sa, sb) <=> StrLess(a, b))

\* a candidate with fewer extra tokens came before one whose name is smaller
C14_Witness ==
    /\ unit.fn = "match_score" /\ result # None
    /\ unit.a # unit.req /\ unit.b # unit.req
    /\ ExtraTokens(unit.a, unit.req) < ExtraTokens(unit.b, unit.req)
    /\ StrLess(unit.b, unit.a)
    /\ ScoreLess(The(result).value[1], The(result).value[2])

\* C18: find_best_precomputed_run over one complete run directory that
\* matches the request returns it iff max_eval_instances is None, or the
\* instance count inferred for the directory is None, or it equals
\* max_eval_instances.
C18_InstanceCountFilter ==
    (/\ unit.fn = "find_best_precomputed_run" /\ result # None
     /\ is_complete_run_dir(unit.run, unit.require_per_instance_stats)
     /\ run_dir_matches_requested(unit.run.name, unit.req)) =>
        LET n    == infer_num_instances(unit.run)
            max  == unit.max_eval_instances
            kept == The(result).value # None
        IN  /\ ~The(result).raised
            /\ kept => The(result).value = Some(unit.run)
            /\ max = None => kept
            /\ max # None => (kept <=> (n = None \/ n = max))

\* a run directory without readable instance statistics was kept although
\* an instance count was asked for
C18_Witness ==
    /\ unit.fn = "find_best_precomputed_run" /\ result # None
    /\ unit.max_eval_instances = Some(2)
    /\ PerInstanceStats \notin unit.run.files
    /\ The(result).value = Some(unit.run)

\* C19: infer_num_instances returns the number of distinct instance_id
\* values of the records of per_instance_stats.json, and returns None when
\* the file is absent, does not load, holds no list, or holds a list in
\* which no record has an instance_id; it never returns zero.
C19_InferDistinctOrUnknown ==
    (unit.fn = "infer_num_instances" /\ result # None) =>
        LET data == unit.run.pis.items
            ids  == {data[i].instance_id :
                        i \in {j \in 1..Len(data) : data[j].has_id}}
            malformed == \/ PerInstanceStats \notin unit.run.files
                         \/ unit.run.pis.kind # "list"
                         \/ ids = {}
            n    == The(result).value
        IN  /\ malformed => n = None
            /\ ~malformed => n = Some(Cardinality(ids))
            /\ n # Some(0)

\* C20: for a description that parses, the namespace is the text before the
\* first ':'; every non-blank piece between the commas of the text after it
\* gives one token: a piece with '=' gives the key before its first '=' and
\* as value everything after that '=', further '=' and ':' included; a piece
\* without '=' gives a flag token (value True); of two pieces with one key
\* the later one stays; surrounding whitespace is dropped.
C20_ParseRule ==
    (/\ unit.fn = "parse_run_entry_description" /\ result # None
     /\ ~The(result).raised) =>
        LET desc    == unit.desc
            colon   == FirstIndex(desc, ":")
            parts   == Split(SubSeq(desc, colon + 1, Len(desc)), ",")
            piece(j) == Strip(parts[j])
            key(p)  == IF Contains(p, "=")
                       THEN Strip(SubSeq(p, 1, FirstIndex(p, "=") - 1)) ELSE p
            val(p)  == Strip(SubSeq(p, FirstIndex(p, "=") + 1, Len(p)))
            live    == {j \in 1..Len(parts) : piece(j) # <<>>}
            last(j) == \A h \in live : h > j => key(piece(h)) # key(piece(j))
            toks    == The(result).value.tokens
        IN  /\ colon > 0
            /\ The(result).value.bench = Strip(SubSeq(desc, 1, colon - 1))
            /\ \A j \in live : last(j) =>
                  \E i \in 1..Len(toks) :
                     /\ toks[i].k = key(piece(j))
                     /\ IF Contains(piece(j), "=")
                        THEN ~toks[i].flag /\ toks[i].v = val(piece(j))
                        ELSE toks[i].flag
            /\ \A i \in 1..Len(toks) :
                  \E j \in live : last(j) /\ toks[i].k = key(piece(j))
            /\ \A i, h \in 1..Len(toks) : toks[i].k = toks[h].k => i = h

\* a description with a flag and with a value that holds '=' and ':'
C20_Witness ==
    /\ unit.fn = "parse_run_entry_description" /\ result # None
    /\ ~The(result).raised
    /\ \E i, h \in 1..Len(The(result).value.tokens) :
         LET toks == The(result).value.tokens
         IN  /\ toks[i].flag
             /\ ~toks[h].flag /\ Contains(toks[h].v, "=") /\ Contains(toks[h].v, ":")

\* C21: parse_run_entry_description raises for the run_entry of the node iff
\* the run_entry has no ':' or nothing but blanks before its first ':', and
\* what it returns otherwise has a non-empty namespace; a node whose
\* run_entry does not parse never has a sentinel or a match, and each of its
\* invocations that is not killed ends in an error.
C21_MalformedRunEntryFails ==
    LET r == parse_run_entry_description(node.run_entry)
        malformed ==
            \/ \A i \in 1..Len(node.run_entry) : node.run_entry[i] # ":"
            \/ \E i \in 1..Len(node.run_entry) :
                  /\ node.run_entry[i] = ":"
                  /\ \A j \in 1..(i-1) : node.run_entry[j] \in Whitespace
    IN  /\ r.ok <=> ~malformed
        /\ r.ok => r.bench # <<>>
        /\ ~r.ok =>
             /\ ~done /\ match = None
             /\ pc \notin {"materialize", "write_manifest", "write_done"}
             /\ Completed => outcome \in ErrorOutcomes
             /\ Completed => ret = None

\* a search that met a complete run directory raised the descriptor error
\* for a run_entry with an empty namespace
C21_Witness ==
    /\ node.run_entry = ReqNoBench
    /\ Ended /\ outcome = "DESCRIPTOR_ERROR" /\ exc = "ValueError"
    /\ searched /\ ~done

\* C22: a description that parses, rendered again as its namespace, ':' and
\* its tokens written key=value (a flag as the bare key) joined by ',',
\* parses to the same namespace and the same tokens.
C22_ParseRoundTrip ==
    (/\ unit.fn = "parse_run_entry_description" /\ result # None
     /\ ~The(result).raised) =>
        LET first    == The(result).value
            rendered == first.bench \o <<":">>
                          \o Join(RequiredTokens(first.tokens), <<",">>)
            again    == parse_run_entry_description(rendered)
        IN  /\ again.ok
            /\ again.bench = first.bench
            /\ SeqToSet(again.tokens) = SeqToSet(first.tokens)
            /\ Len(again.tokens) = Len(first.tokens)

\* a description that is not its own rendering, with a flag among its tokens
C22_Witness ==
    /\ unit.fn = "parse_run_entry_description" /\ result # None
    /\ ~The(result).raised
    /\ LET first == The(result).value
       IN  /\ \E i \in 1..Len(first.tokens) : first.tokens[i].flag
           /\ Len(first.tokens) = 2
           /\ unit.desc # first.bench \o <<":">>
                             \o Join(RequiredTokens(first.tokens), <<",">>)

\* C23: canonicalize_requested_tokens returns the tokens it was given with
\* every '/' of the value of the token named model replaced by '_' when that
\* value is a string, and every other token as it was; canonicalizing the
\* result again changes nothing; the dict passed in is left as it was.
C23_CanonicalizeModelOnly ==
    (unit.fn = "canonicalize_requested_tokens" /\ result # None) =>
        LET t == unit.given
            v == The(result).value
        IN  /\ Len(v) = Len(t)
            /\ \A i \in 1..Len(t) :
                  IF t[i].k = ModelKey /\ ~t[i].flag
                  THEN /\ v[i].k = t[i].k /\ ~v[i].flag
                       /\ Len(v[i].v) = Len(t[i].v)
                       /\ \A j \in 1..Len(t[i].v) :
                             v[i].v[j] = IF t[i].v[j] = "/" THEN "_"
                                         ELSE t[i].v[j]
                  ELSE v[i] = t[i]
            /\ canonicalize_requested_tokens(v) = v
            /\ unit.tokens = t

\* a model value with two '/' next to another value with a '/'
C23_Witness ==
    /\ unit.fn = "canonicalize_requested_tokens" /\ result # None
    /\ \E i, h \in 1..Len(unit.given) :
         /\ unit.given[i].k = ModelKey
         /\ unit.given[i].v = <<"o","/","g","/","a">>
         /\ The(result).value[i].v = <<"o","_","g","_","a">>
         /\ unit.given[h].k # ModelKey /\ Contains(unit.given[h].v, "/")

\* C24: is_complete_run_dir is true iff run_spec.json, scenario_state.json
\* and stats.json exist and, when require_per_instance_stats is set,
\* per_instance_stats.json exists too; with the flag unset,
\* per_instance_stats.json being there or not does not change the result.
C24_CompleteIffFiles ==
    (unit.fn = "is_complete_run_dir" /\ result # None) =>
        LET files == unit.run.files
            flag  == unit.require_per_instance_stats
            with  == [unit.run EXCEPT !.files = files \cup {"per_instance_stats.json"}]
            without == [unit.run EXCEPT !.files = files \ {"per_instance_stats.json"}]
        IN  /\ The(result).value <=>
                  /\ "run_spec.json" \in files
                  /\ "scenario_state.json" \in files
                  /\ "stats.json" \in files
                  /\ flag => "per_instance_stats.json" \in files
            /\ ~flag => /\ is_complete_run_dir(with, flag) = The(result).value
                         /\ is_complete_run_dir(without, flag) = The(result).value

\* the three files without per_instance_stats.json: complete with the flag
\* unset
C24_Witness ==
    /\ unit.fn = "is_complete_run_dir" /\ result # None
    /\ unit.run.files = {"run_spec.json", "scenario_state.json", "stats.json"}
    /\ ~unit.require_per_instance_stats
    /\ The(result).value

\* C25: what find_best_precomputed_run and find_run_in_out_dpath return is a
\* run directory they discovered that is complete under the flag, matches
\* the request by token subset, passes the instance-count filter, and has a
\* match_score no candidate of that kind is below; they return None iff
\* there is no such candidate.
C25_ResultIsBestCandidate ==
    (/\ unit.fn \in {"find_best_precomputed_run/roots", "find_run_in_out_dpath"}
     /\ result # None) =>
        LET seen == IF unit.fn = "find_run_in_out_dpath"
                    THEN {d \in OutRunDirs(unit.tree, StoreInit) :
                             d.suite = unit.suite}
                    ELSE {d \in unit.dirs : d.root \in SeqToSet(unit.roots)}
            max  == unit.max_eval_instances
            good(d) ==
                /\ is_complete_run_dir(d, unit.require_per_instance_stats)
                /\ run_dir_matches_requested(d.name, unit.req)
                /\ \/ max = None
                   \/ infer_num_instances(d) = None
                   \/ infer_num_instances(d) = max
            found == The(result).value
        IN  /\ ~The(result).raised
            /\ found = None <=> ~\E d \in seen : good(d)
            /\ found # None =>
                 /\ The(found) \in seen /\ good(The(found))
                 /\ \A d \in seen : good(d) =>
                       ~ScoreLess(match_score(d.name, unit.req),
                                  match_score(The(found).name, unit.req))

\* the search passed an incomplete exact match found first and returned,
\* of two complete candidates, the one with fewer extra tokens
C25_Witness ==
    /\ unit.fn = "find_run_in_out_dpath" /\ result # None
    /\ unit.suite = S1 /\ unit.max_eval_instances = None
    /\ DirEntry(S1, N1, {"run_spec.json"}, PisUnreadable) \in unit.tree
    /\ DirEntry(S1, N2, AllFiles, PisList(<<Item(1), Item(2)>>)) \in unit.tree
    /\ The(result).value # None
    /\ The(The(result).value).name = N2

\* C26: the run directory find_best_precomputed_run returns is the one it
\* returns for the same run directories and request with the roots listed
\* in any other order and the benchmark_output directories yielded in any
\* other order.
C26_ChoiceIndependentOfOrder ==
    (unit.fn = "find_best_precomputed_run/roots" /\ result # None) =>
        \A p \in Orders(1..Len(unit.roots)) :
           \A walk \in discover_benchmark_output_dirs(
                          [i \in 1..Len(unit.roots) |-> unit.roots[p[i]]],
                          unit.dirs) :
              SearchOutputs(walk, unit.dirs, unit.req, unit.max_eval_instances,
                            unit.require_per_instance_stats).found
                 = The(result).value

UninterruptedEnd(c, start, text, walk) ==
    LET r    == IF ReuseAttempted(c)
                THEN SearchOutputs(walk, store, c.run_entry,
                         c.max_eval_instances, c.require_per_instance_stats)
                ELSE NoResult
        same(how, sentinel) ==
            [outcome |-> how, done |-> sentinel, manifest |-> start[2],
             tree |-> start[4]]
    IN  IF start[1] /\ c.mode # "force_recompute"
        THEN same("ALREADY_DONE", TRUE)
        ELSE IF r.raised THEN same("DESCRIPTOR_ERROR", FALSE)
        ELSE IF r.found # None
        THEN LET d == The(r.found)
                 target == IF c.materialize = "symlink"
                           THEN LinkEntry(c.suite, d.name, PathOf(d))
                           ELSE DirEntry(c.suite, d.name, d.files, d.pis)
             IN  [outcome |-> "REUSED", done |-> TRUE,
                  manifest |-> Some(Manifest(c, "reused",
                                   Some(ReuseDetails(c, MatchResult(d))), None)),
                  tree |-> (start[4] \ EntryAt(start[4], c.suite, d.name))
                              \cup {target}]
        ELSE IF c.mode = "reuse_only"
        THEN [outcome |-> "REUSE_ONLY_MISSING", done |-> FALSE,
              manifest |-> IF text THEN Some(Manifest(c, "missing", None, None))
                           ELSE start[2],
              tree |-> start[4]]
        ELSE same("COMPUTE_FAILED", FALSE)

\* C28: an invocation that follows one or more killed invocations of the
\* same inputs, on unchanged roots, and meets no filesystem error ends with
\* the outcome, the sentinel, the manifest and the run directories that an
\* invocation with these inputs which is not killed leaves when it starts
\* where the first killed one started; an invocation that is not killed and
\* follows no killed one ends that way from its own start.  (Where the
\* search has several best candidates, "leaves" is one of the ends such an
\* invocation can have.)
C28_CrashRecovery ==
    (Completed /\ unit.phase \in {"none", "retry"} /\ outcome # "FS_ERROR") =>
        \E walk \in discover_benchmark_output_dirs(config.precomputed_roots,
                                                   store) :
           LET e == UninterruptedEnd(config,
                        IF unit.phase = "retry" THEN unit.start ELSE out0,
                        exc = "SystemExit", walk)
           IN  /\ outcome = e.outcome
               /\ done = e.done
               /\ manifest = e.manifest
               /\ tree = e.tree

\* a copy that was killed half way, and whose retry left the full copy,
\* the reused manifest and the sentinel
C28_Witness ==
    /\ Completed /\ unit.phase = "retry" /\ outcome = "REUSED"
    /\ config.materialize = "copy"
    /\ \E e \in out0[4] : e.kind = "dir" /\ e.files = {}
    /\ unit.start[4] = {} /\ ~unit.start[1]
    /\ done /\ \E e \in tree : e.kind = "dir" /\ e.files = AllFiles

\* C29: an invocation that reaches the Compute Invoker starts helm-run, and
\* helm-run gets, after --run-entries, the canonical descriptor of the
\* request (the namespace and the canonicalized tokens, as the Matcher
\* compares them), the suite after --suite, the instance cap, and out_dpath
\* as its working directory.
C29_InvokerGetsCanonicalDescriptor ==
    (/\ Completed /\ called
     /\ parse_run_entry_description(config.run_entry).ok) =>
        LET req       == parse_run_entry_description(config.run_entry)
            canonical == req.bench \o <<":">> \o
                         Join(RequiredTokens(
                                canonicalize_requested_tokens(req.tokens)),
                              <<",">>)
            run       == HelmRunCommand(RunHelmCallArguments(config))
        IN  /\ launched
            /\ run.cmd[3] = canonical
            /\ run.cmd[5] = config.suite
            /\ run.cwd = "out"
            /\ config.max_eval_instances # None =>
                  run.cmd[7] = The(config.max_eval_instances)

\* a manifest is consistent: it has one of the four statuses, the details
\* of a reuse iff its status is reused, those of a computation iff computed
ManifestConsistent(m) ==
    /\ m.status \in {"reused", "computed", "missing", "error"}
    /\ m.reuse # None <=> m.status = "reused"
    /\ m.computed # None <=> m.status = "computed"

\* C30: the manifest on disk is consistent whenever there is one, and so is
\* the manifest an invocation returns that did not take the short circuit;
\* a step that changes the manifest file is followed, within its
\* invocation, by no other step that changes it.
C30_ManifestConsistent ==
    /\ [](manifest # None => ManifestConsistent(The(manifest)))
    /\ []((Completed /\ ret # None /\ outcome # "ALREADY_DONE") =>
             ManifestConsistent(The(ret)))
    /\ [][/\ manifest' # manifest => pc' \in {"write_done", "ended"}
          /\ pc \in {"write_done", "ended"} => manifest' = manifest]_vars

\* a reuse wrote its manifest over the missing manifest of an earlier
\* invocation, and returned it
C30_Witness ==
    /\ Completed /\ outcome = "REUSED"
    /\ ManifestAtStart # None /\ The(ManifestAtStart).status = "missing"
    /\ ret = manifest /\ The(manifest).status = "reused"
    /\ The(manifest).reuse # None
====
